---- MODULE Spec2Model ----
(***************************************************************************)
(* gensudoku: the exact-cover (dancing links) solver of solver.c, the      *)
(* Sudoku encoding of sudoku.c and the generation pipeline built on them.  *)
(*                                                                         *)
(* The node arena of solver.c is a record of arrays indexed by node        *)
(* number: node i of the C array `nodes` is (left[i], right[i], up[i],     *)
(* down[i], column[i], count[i], rownum[i]).  Column headers are nodes     *)
(* 0..ncols-1, the root is node ncols, the cell nodes follow in the order  *)
(* solver_init_graph allocates them.                                       *)
(***************************************************************************)
EXTENDS Integers, Sequences, FiniteSets, TLC

\* A null pointer (the arena is calloc'ed, so every unset link is null).
NULL == -1

\* dlx_mode
DLX_RANDOM == "DLX_RANDOM"
DLX_UNIQUE == "DLX_UNIQUE"

(***************************************************************************)
(* solver.c: building the graph                                            *)
(***************************************************************************)

\* A function given by a rule, as the array of its values (the same function;
\* TLC then holds it as a table instead of applying the rule at each use).
Array(f) == f @@ << >>

\* F applied to the value of e (the same as F(e); TLC then computes e once
\* instead of at each use F makes of it).
With(e, F(_)) == CHOOSE r \in {F(v) : v \in {e}} : TRUE

\* The rows of column col whose cell is on, in ascending row order.
ColRows(cells, ncols, nrows, col) ==
  SelectSeq([r \in 1..nrows |-> r - 1], LAMBDA r : cells[(r * ncols) + col])

RECURSIVE SumLen(_, _)
SumLen(cr, col) == IF col < 0 THEN 0 ELSE Len(cr[col]) + SumLen(cr, col - 1)

RECURSIVE RemoveEmptyColumnsSkipFirst(_, _, _)
\* the loop of the non-strict build gone wrong: it starts at column 1, as the
\* header loop does, so column 0 is never unlinked
RemoveEmptyColumnsSkipFirst(g, ncols, col) ==
  IF col >= ncols THEN g
  ELSE IF g.count[col] = 0 /\ col > 0
       THEN LET g1 == [g EXCEPT !.right[g.left[col]] = g.right[col]]
                g2 == [g1 EXCEPT !.left[g1.right[col]] = g1.left[col]]
            IN  RemoveEmptyColumnsSkipFirst(g2, ncols, col + 1)
       ELSE RemoveEmptyColumnsSkipFirst(g, ncols, col + 1)

RECURSIVE RemoveEmptyColumns(_, _, _)
\* The loop of the non-strict build: every header whose count is 0 is
\* unlinked from the header ring, in ascending column order.
RemoveEmptyColumns(g, ncols, col) ==
  IF col >= ncols THEN g
  ELSE IF g.count[col] = 0
       THEN LET g1 == [g EXCEPT !.right[g.left[col]] = g.right[col]]
                g2 == [g1 EXCEPT !.left[g1.right[col]] = g1.left[col]]
            IN  RemoveEmptyColumns(g2, ncols, col + 1)
       ELSE RemoveEmptyColumns(g, ncols, col + 1)

\* solver_create + solver_init_graph for a matrix of at least two columns.
\* cells[row*ncols+col] is the boolean matrix.
solver_init_graph(cells, ncols, nrows, strict) ==
  LET cr     == Array([col \in 0..(ncols - 1) |-> ColRows(cells, ncols, nrows, col)])
      base   == Array([col \in 0..(ncols - 1) |-> ncols + 1 + SumLen(cr, col - 1)])
      inuse  == SumLen(cr, ncols - 1)
      needed == inuse + ncols + 1
      root   == ncols
      \* the node allocated for each on cell, by allocation order
      usedcol == Array([n \in (ncols + 1)..(needed - 1) |->
                    CHOOSE col \in 0..(ncols - 1) :
                      base[col] <= n /\ n < base[col] + Len(cr[col])])
      usedrow == Array([n \in (ncols + 1)..(needed - 1) |->
                    cr[usedcol[n]][n - base[usedcol[n]] + 1]])
      \* the nodes of each row, in ascending column order
      rowNodes == Array([r \in 0..(nrows - 1) |->
                     SelectSeq([i \in 1..inuse |-> ncols + i],
                               LAMBDA n : usedrow[n] = r)])
      Pos(s, n) == CHOOSE i \in 1..Len(s) : s[i] = n
      up0 == [n \in 0..(needed - 1) |->
                IF n < ncols THEN (IF Len(cr[n]) = 0 THEN n
                                   ELSE base[n] + Len(cr[n]) - 1)
                ELSE IF n = root THEN NULL
                ELSE IF n = base[usedcol[n]] THEN usedcol[n] ELSE n - 1]
      down0 == [n \in 0..(needed - 1) |->
                IF n < ncols THEN (IF Len(cr[n]) = 0 THEN n ELSE base[n])
                ELSE IF n = root THEN NULL
                ELSE IF n = base[usedcol[n]] + Len(cr[usedcol[n]]) - 1
                     THEN usedcol[n] ELSE n + 1]
      left0 == [n \in 0..(needed - 1) |->
                IF n = 0 THEN root
                ELSE IF n < ncols THEN n - 1
                ELSE IF n = root THEN ncols - 1
                ELSE LET s == rowNodes[usedrow[n]]
                         i == Pos(s, n)
                     IN  IF i = 1 THEN s[Len(s)] ELSE s[i - 1]]
      right0 == [n \in 0..(needed - 1) |->
                IF n < ncols - 1 THEN n + 1
                ELSE IF n = ncols - 1 THEN root
                ELSE IF n = root THEN 0
                ELSE LET s == rowNodes[usedrow[n]]
                         i == Pos(s, n)
                     IN  IF i = Len(s) THEN s[1] ELSE s[i + 1]]
      g0 == [left   |-> Array(left0),
             right  |-> Array(right0),
             up     |-> Array(up0),
             down   |-> Array(down0),
             column |-> Array([n \in 0..(needed - 1) |->
                           IF n <= ncols THEN NULL ELSE usedcol[n]]),
             count  |-> Array([n \in 0..(needed - 1) |->
                           IF n < ncols THEN Len(cr[n]) ELSE 0]),
             rownum |-> Array([n \in 0..(needed - 1) |->
                           IF n <= ncols THEN 0 ELSE usedrow[n]]),
             root   |-> root]
  IN  IF strict THEN g0 ELSE RemoveEmptyColumns(g0, ncols, 0)

(***************************************************************************)
(* solver.c: cover and uncover                                             *)
(***************************************************************************)

RECURSIVE CoverNodesNoCount(_, _, _)
\* the inner loop of cover gone wrong: n->column->count-- is left out
CoverNodesNoCount(g, row, n) ==
  IF n = row THEN g
  ELSE LET g1 == [g EXCEPT !.down[g.up[n]] = g.down[n]]
           g2 == [g1 EXCEPT !.up[g1.down[n]] = g1.up[n]]
       IN  CoverNodesNoCount(g2, row, g2.right[n])

RECURSIVE CoverNodes(_, _, _)
\* inner loop of cover: n walks the row ring rightwards from row
CoverNodes(g, row, n) ==
  IF n = row THEN g
  ELSE LET g1 == [g EXCEPT !.down[g.up[n]] = g.down[n]]
           g2 == [g1 EXCEPT !.up[g1.down[n]] = g1.up[n]]
           g3 == [g2 EXCEPT !.count[g2.column[n]] = @ - 1]
       IN  CoverNodes(g3, row, g3.right[n])

RECURSIVE CoverRows(_, _, _)
\* outer loop of cover: row walks the column ring downwards
CoverRows(g, column, row) ==
  IF row = column THEN g
  ELSE LET g1 == CoverNodes(g, row, g.right[row])
       IN  CoverRows(g1, column, g1.down[row])

\* cover gone wrong: the header is unlinked but the rows of the column stay
\* in the other columns
cover_header_only(g, column) ==
  LET g1 == [g EXCEPT !.right[g.left[column]] = g.right[column]]
      g2 == [g1 EXCEPT !.left[g1.right[column]] = g1.left[column]]
  IN  g2

cover(g, column) ==
  LET g1 == [g EXCEPT !.right[g.left[column]] = g.right[column]]
      g2 == [g1 EXCEPT !.left[g1.right[column]] = g1.left[column]]
  IN  CoverRows(g2, column, g2.down[column])

RECURSIVE UncoverNodesDownOnly(_, _, _)
\* the inner loop of uncover gone wrong: n->down->up = n is left out
UncoverNodesDownOnly(g, row, n) ==
  IF n = row THEN g
  ELSE LET g1 == [g EXCEPT !.down[g.up[n]] = n]
           g3 == [g1 EXCEPT !.count[g1.column[n]] = @ + 1]
       IN  UncoverNodesDownOnly(g3, row, g3.left[n])

RECURSIVE UncoverNodes(_, _, _)
\* inner loop of uncover: n walks the row ring leftwards from row
UncoverNodes(g, row, n) ==
  IF n = row THEN g
  ELSE LET g1 == [g EXCEPT !.down[g.up[n]] = n]
           g2 == [g1 EXCEPT !.up[g1.down[n]] = n]
           g3 == [g2 EXCEPT !.count[g2.column[n]] = @ + 1]
       IN  UncoverNodes(g3, row, g3.left[n])

RECURSIVE UncoverRows(_, _, _)
\* outer loop of uncover: row walks the column ring upwards
UncoverRows(g, column, row) ==
  IF row = column THEN g
  ELSE LET g1 == UncoverNodes(g, row, g.left[row])
       IN  UncoverRows(g1, column, g1.up[row])

uncover(g, column) ==
  LET g1 == UncoverRows(g, column, g.up[column])
      g2 == [g1 EXCEPT !.right[g1.left[column]] = column]
      g3 == [g2 EXCEPT !.left[g2.right[column]] = column]
  IN  g3

(***************************************************************************)
(* The random generator.  rand() is the C library's: a sequence of values  *)
(* fixed by the seed given to srand.  The model's generator is a periodic  *)
(* tape of values; a state of the generator is a position on the tape.     *)
(***************************************************************************)

\* period of the tape
TapeLen == 3
\* largest value rand() returns
MaxRand == 1

Tapes == [0..(TapeLen - 1) -> 0..MaxRand]

rand(tape, pos) == tape[pos % TapeLen]

Swap(a, i, j) == [a EXCEPT ![i] = a[j], ![j] = a[i]]

RECURSIVE ShuffleFrom(_, _, _, _)
\* The loop shared by shuffle (util.c) and the row shuffle of search:
\* for (i = n-1; i >= 1; i--) { j = rand() % (i+1); swap a[i], a[j] }.
\* a is a sequence, so the C index i is a[i+1].
ShuffleFrom(a, tape, pos, i) ==
  IF i < 1 THEN a
  ELSE LET j == rand(tape, pos) % (i + 1)
       IN  ShuffleFrom(Swap(a, i + 1, j + 1), tape, pos + 1, i - 1)

\* shuffle(a, n) with n = Len(a); the generator advances by max(n-1, 0).
shuffle(a, tape, pos) == ShuffleFrom(a, tape, pos, Len(a) - 1)

Draws(n) == IF n >= 1 THEN n - 1 ELSE 0

(***************************************************************************)
(* solver.c: search and solver_run, as functions of the solver's state     *)
(***************************************************************************)

RECURSIVE ColumnNodes(_, _, _)
\* the nodes of a column's vertical ring, walking down from n to the header
ColumnNodes(g, column, n) ==
  IF n = column THEN << >>
  ELSE <<n>> \o ColumnNodes(g, column, g.down[n])

RECURSIVE ChooseColumnLast(_, _, _)
\* the scan gone wrong: c->count <= min, so the last column of least count
\* is kept
ChooseColumnLast(g, c, best) ==
  IF c = g.root THEN best
  ELSE IF g.count[c] <= g.count[best]
       THEN ChooseColumnLast(g, g.right[c], c)
       ELSE ChooseColumnLast(g, g.right[c], best)

RECURSIVE ChooseColumn(_, _, _)
\* the scan for the column of least count: c walks right to the root
ChooseColumn(g, c, best) ==
  IF c = g.root THEN best
  ELSE IF g.count[c] < g.count[best]
       THEN ChooseColumn(g, g.right[c], c)
       ELSE ChooseColumn(g, g.right[c], best)

choose_column(g) ==
  ChooseColumn(g, g.right[g.right[g.root]], g.right[g.root])

RECURSIVE CoverRowColumns(_, _, _)
\* c = row->right; while (c != row) { cover(c->column); c = c->right; }
CoverRowColumns(g, row, c) ==
  IF c = row THEN g
  ELSE CoverRowColumns(cover(g, g.column[c]), row, g.right[c])

\* the backtracking walk gone wrong: it goes through the row rightwards, as
\* the covering walk does
PrevInRowRightwards(g, n) == g.right[n]

\* the node the backtracking walk of search visits after n: n->left
PrevInRow(g, n) == g.left[n]

RECURSIVE UncoverRowColumns(_, _, _)
\* c = row->left; while (c != row) { uncover(c->column); c = c->left; }
UncoverRowColumns(g, row, c) ==
  IF c = row THEN g
  ELSE UncoverRowColumns(uncover(g, g.column[c]), row, PrevInRow(g, c))

\* the rows of a covered column in the order search tries them
search_rows(g, column, mode, tape, pos) ==
  LET rows == ColumnNodes(g, column, g.down[column])
  IN  IF mode = DLX_RANDOM THEN shuffle(rows, tape, pos) ELSE rows

\* leaf results gone wrong: unique mode stops at the first assignment, or
\* only at the third
leaf_result_first(mode, solution_count) ==
  mode = DLX_RANDOM \/ (mode = DLX_UNIQUE /\ solution_count > 0)

leaf_result_third(mode, solution_count) ==
  mode = DLX_RANDOM \/ (mode = DLX_UNIQUE /\ solution_count > 2)

\* what the leaf of search returns once solution_count has been incremented
leaf_result(mode, solution_count) ==
  mode = DLX_RANDOM \/ (mode = DLX_UNIQUE /\ solution_count > 1)

RECURSIVE search(_, _, _, _, _)
RECURSIVE TryRows(_, _, _, _, _, _, _, _)

\* st = [g, solution, solution_count, pos, aborted]; the result adds ret.
\* aborted records a failed assert(k >= 0 && k < s->solution_size).
search(st, mode, tape, size, k) ==
  IF ~(k >= 0 /\ k < size) THEN [st EXCEPT !.aborted = TRUE, !.ret = FALSE]
  ELSE IF st.g.right[st.g.root] = st.g.root
  THEN [st EXCEPT !.solution_count = @ + 1,
                  !.ret = leaf_result(mode, st.solution_count + 1)]
  ELSE LET column == choose_column(st.g)
           g1     == cover(st.g, column)
           rows   == IF g1.count[column] > 0
                     THEN search_rows(g1, column, mode, tape, st.pos)
                     ELSE << >>
           pos1   == IF mode = DLX_RANDOM
                     THEN st.pos + Draws(Len(rows)) ELSE st.pos
       IN  TryRows([st EXCEPT !.g = g1, !.pos = pos1],
                   mode, tape, size, k, column, rows, 1)

TryRows(st, mode, tape, size, k, column, rows, i) ==
  IF i > Len(rows)
  THEN [st EXCEPT !.g = uncover(st.g, column), !.ret = FALSE]
  ELSE LET row == rows[i]
           st1 == [st EXCEPT !.solution[k] = st.g.rownum[row],
                             !.g = CoverRowColumns(st.g, row, st.g.right[row])]
           r   == search(st1, mode, tape, size, k + 1)
       IN  IF r.aborted \/ r.ret THEN r
           ELSE TryRows([r EXCEPT !.g = UncoverRowColumns(r.g, row, PrevInRow(r.g, row))],
                        mode, tape, size, k, column, rows, i + 1)

\* solver_run: the buffer is reset to -1, the search is run from depth 0,
\* and the result is found (random mode) or solution_count = 1 (unique mode).
solver_run(g, mode, size, tape, pos) ==
  LET st0 == [g |-> g, solution |-> Array([i \in 0..(size - 1) |-> -1]),
              solution_count |-> 0, pos |-> pos, aborted |-> FALSE, ret |-> FALSE]
      r   == search(st0, mode, tape, size, 0)
  IN  [r EXCEPT !.ret = IF mode = DLX_RANDOM THEN r.ret
                        ELSE r.solution_count = 1]

(***************************************************************************)
(* sudoku.h, sudoku.c: the grid and its exact-cover encoding               *)
(***************************************************************************)

\* Side of a box.  The source fixes 3 (SEC_IDX, DLX_X, DLX_Y, DLX_V and
\* SUDOKU_SIZE 9 are written for 3x3 boxes in a 9x9 grid); the model keeps
\* the geometry and takes the box side as its scale.
BOX == 2

SUDOKU_SIZE == BOX * BOX
GRID_SIZE == SUDOKU_SIZE * SUDOKU_SIZE

GRID_IDX(x, y) == (y * SUDOKU_SIZE) + x
GRID_X(idx) == idx % SUDOKU_SIZE
GRID_Y(idx) == idx \div SUDOKU_SIZE
SEC_IDX(x, y) == ((y \div BOX) * BOX) + (x \div BOX)

DLX_MAX_ROWS == GRID_SIZE * SUDOKU_SIZE
DLX_MAX_COLS == 4 * GRID_SIZE

\* v is the value minus one, as in the loop of get_dlx_cells
DLX_ROW(v, x, y) == (GRID_SIZE * y) + (SUDOKU_SIZE * x) + v
DLX_COL1(v, x, y) == (SUDOKU_SIZE * y) + x
DLX_COL2(v, x, y) == GRID_SIZE + (SUDOKU_SIZE * y) + v
DLX_COL3(v, x, y) == (2 * GRID_SIZE) + (SUDOKU_SIZE * x) + v
DLX_COL4(v, x, y) == (3 * GRID_SIZE) + (SUDOKU_SIZE * SEC_IDX(x, y)) + v
DLX_CELL_IDX(r, c) == (r * DLX_MAX_COLS) + c

DLX_X(r) == (r \div SUDOKU_SIZE) % SUDOKU_SIZE
\* DLX_Y gone wrong: the row of the grid is taken modulo the side, as DLX_X is
DLX_Y_modulo(r) == (r \div SUDOKU_SIZE) % SUDOKU_SIZE

DLX_Y(r) == (r \div SUDOKU_SIZE) \div SUDOKU_SIZE
DLX_V(r) == (r % SUDOKU_SIZE) + 1

Grids == [0..(GRID_SIZE - 1) -> 0..SUDOKU_SIZE]

\* get_section_idxs: the grid indices of section sec_idx
get_section_idxs(sec_idx) ==
  [i \in 0..(SUDOKU_SIZE - 1) |->
     GRID_IDX(((sec_idx % BOX) * BOX) + (i % BOX),
              ((sec_idx \div BOX) * BOX) + (i \div BOX))]

\* get_masks gone wrong: the row masks are read down the columns and the
\* column masks along the rows
get_masks_swapped(grid) ==
  [rows |-> [i \in 0..(SUDOKU_SIZE - 1) |->
               {grid[GRID_IDX(i, j)] : j \in 0..(SUDOKU_SIZE - 1)}],
   cols |-> [i \in 0..(SUDOKU_SIZE - 1) |->
               {grid[GRID_IDX(j, i)] : j \in 0..(SUDOKU_SIZE - 1)}],
   secs |-> [i \in 0..(SUDOKU_SIZE - 1) |->
               {grid[get_section_idxs(i)[j]] : j \in 0..(SUDOKU_SIZE - 1)}]]

\* get_masks.  A mask is the set of its bits that are on: bit v is on when
\* some cell of the unit holds v (bit 0 when some cell is empty).
get_masks(grid) ==
  [rows |-> [i \in 0..(SUDOKU_SIZE - 1) |->
               {grid[GRID_IDX(j, i)] : j \in 0..(SUDOKU_SIZE - 1)}],
   cols |-> [i \in 0..(SUDOKU_SIZE - 1) |->
               {grid[GRID_IDX(i, j)] : j \in 0..(SUDOKU_SIZE - 1)}],
   secs |-> [i \in 0..(SUDOKU_SIZE - 1) |->
               {grid[get_section_idxs(i)[j]] : j \in 0..(SUDOKU_SIZE - 1)}]]

\* The (x, y, v) for which the loops of get_dlx_cells reach the body of the
\* innermost if: (x, y) is empty and bit v+1 is off in the cell's net mask.
dlx_rows(grid) ==
  LET m == get_masks(grid)
  IN  {u \in (0..(SUDOKU_SIZE - 1)) \X (0..(SUDOKU_SIZE - 1))
                \X (0..(SUDOKU_SIZE - 1)) :
         /\ grid[GRID_IDX(u[1], u[2])] = 0
         /\ (u[3] + 1) \notin (m.rows[u[2]] \cup m.cols[u[1]]
                                \cup m.secs[SEC_IDX(u[1], u[2])])}

\* get_dlx_cells: the boolean matrix, with *count, *ncols and *nrows.  Each
\* (x, y, v) of dlx_rows sets four cells of row DLX_ROW(v, x, y) and adds 4
\* to *count.
get_dlx_cells(grid) ==
  LET gen == dlx_rows(grid)
      set == UNION {LET x == u[1]
                        y == u[2]
                        v == u[3]
                        row == DLX_ROW(v, x, y)
                    IN  {DLX_CELL_IDX(row, DLX_COL1(v, x, y)),
                         DLX_CELL_IDX(row, DLX_COL2(v, x, y)),
                         DLX_CELL_IDX(row, DLX_COL3(v, x, y)),
                         DLX_CELL_IDX(row, DLX_COL4(v, x, y))} : u \in gen}
  IN  [cells |-> Array([i \in 0..(DLX_MAX_ROWS * DLX_MAX_COLS - 1) |-> i \in set]),
       count |-> 4 * Cardinality(gen),
       ncols |-> DLX_MAX_COLS,
       nrows |-> DLX_MAX_ROWS]

RECURSIVE fill_solution_swapped(_, _, _, _)
\* fill_solution gone wrong: the row index is decoded with x and y exchanged
fill_solution_swapped(grid, set, n, i) ==
  IF i >= n THEN grid
  ELSE LET r == set[i]
       IN  IF r # -1
           THEN fill_solution_swapped(
                  [grid EXCEPT ![GRID_IDX(DLX_Y(r), DLX_X(r))] = DLX_V(r)],
                  set, n, i + 1)
           ELSE fill_solution_swapped(grid, set, n, i + 1)

RECURSIVE fill_solution(_, _, _, _)
\* for (i = 0; i < n; i++) if (set[i] != -1) grid[GRID_IDX(X, Y)] = V
fill_solution(grid, set, n, i) ==
  IF i >= n THEN grid
  ELSE LET r == set[i]
       IN  IF r # -1
           THEN fill_solution([grid EXCEPT ![GRID_IDX(DLX_X(r), DLX_Y(r))] = DLX_V(r)],
                              set, n, i + 1)
           ELSE fill_solution(grid, set, n, i + 1)

\* sudoku_solve gone wrong: fill_solution is called whatever solver_run
\* returned
sudoku_solve_fill_always(grid, tape, pos) ==
  With(get_dlx_cells(grid), LAMBDA d :
  With(solver_init_graph(d.cells, d.ncols, d.nrows, FALSE), LAMBDA g :
  With(solver_run(g, DLX_RANDOM, GRID_SIZE, tape, pos), LAMBDA r :
    [solved  |-> r.ret,
     grid    |-> IF ~r.aborted
                 THEN fill_solution(grid, r.solution, GRID_SIZE, 0) ELSE grid,
     pos     |-> r.pos,
     aborted |-> r.aborted])))

\* sudoku_solve: the result is [solved, grid, pos, aborted]
sudoku_solve(grid, tape, pos) ==
  With(get_dlx_cells(grid), LAMBDA d :
  With(solver_init_graph(d.cells, d.ncols, d.nrows, FALSE), LAMBDA g :
  With(solver_run(g, DLX_RANDOM, GRID_SIZE, tape, pos), LAMBDA r :
    [solved  |-> r.ret,
     grid    |-> IF r.ret /\ ~r.aborted
                 THEN fill_solution(grid, r.solution, GRID_SIZE, 0) ELSE grid,
     pos     |-> r.pos,
     aborted |-> r.aborted])))

\* the count-unique run gone wrong: the graph is built strict, so the
\* columns of the constraints the hints already meet stay in the header ring
unique_run_strict(grid, tape, pos) ==
  With(get_dlx_cells(grid), LAMBDA d :
  With(solver_init_graph(d.cells, d.ncols, d.nrows, TRUE), LAMBDA g :
    solver_run(g, DLX_UNIQUE, GRID_SIZE, tape, pos)))

\* the count-unique run of remove_non_unique_hints on the current grid
unique_run(grid, tape, pos) ==
  With(get_dlx_cells(grid), LAMBDA d :
  With(solver_init_graph(d.cells, d.ncols, d.nrows, FALSE), LAMBDA g :
    solver_run(g, DLX_UNIQUE, GRID_SIZE, tape, pos)))

(***************************************************************************)
(* sudoku.c: the stages of sudoku_generate                                 *)
(***************************************************************************)

\* init_shuffled_array(numbers, n, start): start, start+1, ... shuffled
init_shuffled_array(n, start, tape, pos) ==
  shuffle([i \in 1..n |-> (i - 1) + start], tape, pos)

\* seed gone wrong: the memset is left out, so the cells below the first row
\* keep what the caller's memory held
seed_no_memset(grid, tape, pos) ==
  LET numbers == init_shuffled_array(SUDOKU_SIZE, 1, tape, pos)
  IN  Array([i \in 0..(GRID_SIZE - 1) |->
               IF GRID_Y(i) = 0 THEN numbers[GRID_X(i) + 1] ELSE grid[i]])

\* seed: the grid is cleared and its first row is a shuffle of 1..SUDOKU_SIZE;
\* the generator advances by Draws(SUDOKU_SIZE)
seed(grid, tape, pos) ==
  LET numbers == init_shuffled_array(SUDOKU_SIZE, 1, tape, pos)
  IN  Array([i \in 0..(GRID_SIZE - 1) |->
               IF GRID_Y(i) = 0 THEN numbers[GRID_X(i) + 1] ELSE 0])

\* all_on of remove_deduced_hints, as the set of its bits: 1..SUDOKU_SIZE
all_on == 1..SUDOKU_SIZE

RECURSIVE RemoveDeducedFromKeepSec(_, _, _, _)
\* the loop gone wrong: a removed hint stays in the mask of its section
RemoveDeducedFromKeepSec(st, order, n, i) ==
  IF i >= n THEN st.grid
  ELSE LET x    == GRID_X(order[i + 1])
           y    == GRID_Y(order[i + 1])
           sec  == SEC_IDX(x, y)
           used == st.row_masks[y] \cup st.col_masks[x] \cup st.sec_masks[sec]
           bit  == st.grid[GRID_IDX(x, y)]
       IN  IF used = all_on
           THEN RemoveDeducedFromKeepSec(
                  [grid      |-> [st.grid EXCEPT ![GRID_IDX(x, y)] = 0],
                   row_masks |-> [st.row_masks EXCEPT ![y] = @ \ {bit}],
                   col_masks |-> [st.col_masks EXCEPT ![x] = @ \ {bit}],
                   sec_masks |-> st.sec_masks],
                  order, n, i + 1)
           ELSE RemoveDeducedFromKeepSec(st, order, n, i + 1)

RECURSIVE RemoveDeducedFrom(_, _, _, _)
\* The loop of remove_deduced_hints from index i on.  st = [grid, row_masks,
\* col_masks, sec_masks], each mask the set of its bits that are on.
RemoveDeducedFrom(st, order, n, i) ==
  IF i >= n THEN st.grid
  ELSE LET x    == GRID_X(order[i + 1])
           y    == GRID_Y(order[i + 1])
           sec  == SEC_IDX(x, y)
           used == st.row_masks[y] \cup st.col_masks[x] \cup st.sec_masks[sec]
           bit  == st.grid[GRID_IDX(x, y)]
       IN  IF used = all_on
           THEN RemoveDeducedFrom(
                  [grid      |-> [st.grid EXCEPT ![GRID_IDX(x, y)] = 0],
                   row_masks |-> [st.row_masks EXCEPT ![y] = @ \ {bit}],
                   col_masks |-> [st.col_masks EXCEPT ![x] = @ \ {bit}],
                   sec_masks |-> [st.sec_masks EXCEPT ![sec] = @ \ {bit}]],
                  order, n, i + 1)
           ELSE RemoveDeducedFrom(st, order, n, i + 1)

\* remove_deduced_hints(s, order, n)
remove_deduced_hints(grid, order, n) ==
  LET masks == [i \in 0..(SUDOKU_SIZE - 1) |-> all_on]
  IN  RemoveDeducedFrom([grid |-> grid, row_masks |-> masks,
                         col_masks |-> masks, sec_masks |-> masks],
                        order, n, 0)

\* the check of remove_non_unique_hints gone wrong: the hint is put back when
\* the solution is unique and stays cleared when it is not
hint_after_check_inverted(unique, v) == IF unique THEN v ELSE 0

\* what the tentatively cleared cell holds after the check of
\* remove_non_unique_hints: if (!unique) grid[...] = v
hint_after_check(unique, v) == IF ~unique THEN v ELSE 0

\* the positions of the empty cells, in ascending order (the first loop of
\* add_extra_hints)
empty_cells(grid) ==
  SelectSeq([i \in 1..GRID_SIZE |-> i - 1], LAMBDA c : grid[c] = 0)

RECURSIVE CopyHintsByIndex(_, _, _, _, _)
\* the copy loop gone wrong: the value is read at i instead of hints[i]
CopyHintsByIndex(grid, sol, choices, num, i) ==
  IF i >= num THEN grid
  ELSE CopyHintsByIndex([grid EXCEPT ![choices[i + 1]] = sol[i]],
                        sol, choices, num, i + 1)

RECURSIVE CopyHintsFirstChoice(_, _, _, _, _)
\* the copy loop gone wrong: the value is read at hints[0] instead of hints[i]
CopyHintsFirstChoice(grid, sol, choices, num, i) ==
  IF i >= num THEN grid
  ELSE CopyHintsFirstChoice([grid EXCEPT ![choices[i + 1]] = sol[choices[1]]],
                            sol, choices, num, i + 1)

RECURSIVE CopyHints(_, _, _, _, _)
\* for (i = 0; i < num; i++) s->grid[hints[i]] = solution->grid[hints[i]]
CopyHints(grid, sol, choices, num, i) ==
  IF i >= num THEN grid
  ELSE CopyHints([grid EXCEPT ![choices[i + 1]] = sol[choices[i + 1]]],
                 sol, choices, num, i + 1)

\* add_extra_hints(s, solution, num): the result is [grid, pos]
add_extra_hints(grid, sol, num, tape, pos) ==
  IF num <= 0 THEN [grid |-> grid, pos |-> pos]
  ELSE LET found       == empty_cells(grid)
           num_choices == Len(found)
           choices     == shuffle(found, tape, pos)
           n           == IF num > num_choices THEN num_choices ELSE num
       IN  [grid |-> CopyHints(grid, sol, choices, n, 0),
            pos  |-> pos + Draws(num_choices)]

(***************************************************************************)
(* State                                                                   *)
(***************************************************************************)

VARIABLES
  cells,        \* solver spec: the matrix given to solver_init_graph
  strict,       \* solver spec: the strict flag of solver_init_graph
  solver,       \* struct solver: g, solution, solution_count, solution_size, mode
  stack,        \* the active frames of search, innermost last
  ret,          \* the value the last finished call returned ("none" while running)
  phase,        \* "built", "running", "done"
  leaf_k,       \* history: the depth k of the last frame that found the ring empty
  tape,         \* the generator: its sequence of values, fixed by the seed
  pos,          \* the generator: how many values have been drawn (mod TapeLen)
  puzzle,       \* sudoku *s: the grid being generated or solved
  solution,     \* sudoku *solution: the snapshot of the solved grid
  hints,        \* int hints[GRID_SIZE] of sudoku_generate
  extra_hints,  \* the extra_hints argument
  pc,           \* where sudoku_generate / sudoku_solve stands
  hint_i,       \* loop index i of remove_non_unique_hints
  hint_v,       \* the value v saved by remove_non_unique_hints
  input,        \* history: the grid as it was when sudoku_solve was called
  solved,       \* history: what sudoku_solve returned
  unique_grid,  \* history: the grid at the end of remove_non_unique_hints
  run,          \* which run of the program this is (1 or 2; 0 when unused)
  first,        \* history: the puzzle and solution the first run printed
  placement,    \* row-index round trip: the (x, y, v) given to DLX_ROW
  dlx_r,        \* row-index round trip: the row index DLX_ROW gave
  decoded,      \* row-index round trip: what DLX_X, DLX_Y, DLX_V gave back
  s_ncols,      \* graph build: s->ncols
  s_nrows,      \* graph build: s->nrows
  arena,        \* graph build: s->nodes, the left and right link of each node
  build_col,    \* graph build: the loop variable col of solver_init_graph
  touched,      \* history: the node indices accessed outside the arena
  build_pc,     \* graph build: where solver_init_graph stands
  gen_result,   \* what the call of sudoku_generate handed back to main
  warned,       \* whether warn() has written its message to stderr
  enc_grid,     \* matrix construction: the grid given to get_dlx_cells
  dlx           \* matrix construction: what get_dlx_cells returned

solverVars == <<cells, strict, solver, stack, ret, phase, leaf_k>>
randVars == <<tape, pos>>
sudokuVars == <<puzzle, solution, hints, extra_hints, pc, hint_i, hint_v,
                input, solved, unique_grid, run, first>>
codecVars == <<placement, dlx_r, decoded>>
buildVars == <<s_ncols, s_nrows, arena, build_col, touched, build_pc>>
callVars == <<gen_result, warned>>
encodeVars == <<enc_grid, dlx>>
auxVars == <<codecVars, buildVars, callVars, encodeVars>>
vars == <<solverVars, randVars, sudokuVars, auxVars>>

NoGrid == << >>

\* the variables a specification does not use keep these values
SolverIdle ==
  /\ cells = << >> /\ strict = FALSE /\ solver = << >> /\ stack = << >>
  /\ ret = "none" /\ phase = "idle" /\ leaf_k = -1
SudokuIdle ==
  /\ puzzle = NoGrid /\ solution = NoGrid /\ hints = << >> /\ extra_hints = 0
  /\ pc = "idle" /\ hint_i = 0 /\ hint_v = 0
  /\ input = NoGrid /\ solved = "none" /\ unique_grid = NoGrid
  /\ run = 0 /\ first = << >>
RandIdle == tape = << >> /\ pos = 0
CodecIdle == placement = << >> /\ dlx_r = NULL /\ decoded = << >>
BuildIdle ==
  /\ s_ncols = NULL /\ s_nrows = NULL /\ arena = << >> /\ build_col = 0
  /\ touched = {} /\ build_pc = "idle"
CallIdle == gen_result = "none" /\ warned = FALSE
EncodeIdle == enc_grid = NoGrid /\ dlx = << >>
AuxIdle == CodecIdle /\ BuildIdle /\ CallIdle /\ EncodeIdle

(***************************************************************************)
(* The solver on small matrices: solver_run and search, one step for each  *)
(* call of cover or uncover and for each call and return of search         *)
(***************************************************************************)

\* The matrices the solver is run on have NRows rows; a row is given by its
\* code, the binary number whose bits are its cells (column 0 first), and
\* the codes run from 0 to MaxRowCode.
NRows == 4
MaxRowCode == 15

RECURSIVE BitLen(_)
BitLen(n) == IF n = 0 THEN 0 ELSE 1 + BitLen(n \div 2)

\* the number of columns: as many as the largest code has bits
NCols == BitLen(MaxRowCode)

\* the capacity of the solution buffer: one more than the deepest search
Capacity == NRows + 1

\* cell (row code, col): bit NCols-1-col of the code
CodeBit(code, col) == (code \div (2 ^ (NCols - 1 - col))) % 2 = 1

MatrixOf(codes) ==
  Array([j \in 0..(NRows * NCols - 1) |->
           CodeBit(codes[(j \div NCols) + 1], j % NCols)])

\* The matrices: every choice of NRows rows, with repetitions, each listed
\* once (rows in non-decreasing order of their code).
Matrices ==
  {MatrixOf(codes) :
     codes \in {cs \in [1..NRows -> 0..MaxRowCode] :
                  \A r \in 1..(NRows - 1) : cs[r] <= cs[r + 1]}}

\* One activation of search.  entry, covered and undone are history: the
\* graph when the frame was entered, and the columns covered and then
\* uncovered for the row the frame is at, in the order of the calls.
Frame(k) == [k |-> k, pc |-> "enter", column |-> NULL, rows |-> << >>,
             i |-> 0, row |-> NULL, c |-> NULL,
             entry |-> solver.g, covered |-> << >>, undone |-> << >>]

Top == stack[Len(stack)]
SetTop(f) == [stack EXCEPT ![Len(stack)] = f]
Pop == SubSeq(stack, 1, Len(stack) - 1)

SolverInit ==
  /\ cells \in Matrices
  /\ strict \in BOOLEAN
  /\ solver = [g |-> solver_init_graph(cells, NCols, NRows, strict),
               solution |-> [j \in 0..(Capacity - 1) |-> 0],
               solution_count |-> 0,
               solution_size |-> 0,
               mode |-> DLX_RANDOM]
  /\ stack = << >>
  /\ ret = "none"
  /\ phase = "built"
  /\ leaf_k = -1
  /\ RandIdle
  /\ SudokuIdle
  /\ AuxIdle

\* solver_run up to its call of search(s, 0)
Run ==
  /\ phase = "built"
  /\ \E m \in {DLX_RANDOM, DLX_UNIQUE} :
       solver' = [solver EXCEPT !.mode = m,
                                !.solution = [j \in 0..(Capacity - 1) |-> -1],
                                !.solution_size = Capacity,
                                !.solution_count = 0]
  /\ stack' = <<Frame(0)>>
  /\ phase' = "running"
  /\ UNCHANGED <<cells, strict, ret, leaf_k, randVars, sudokuVars, auxVars>>

EntryAssert(k) == k >= 0 /\ k < solver.solution_size

\* search finds the header ring empty: a complete assignment
SearchLeaf ==
  /\ phase = "running" /\ stack # << >> /\ Top.pc = "enter"
  /\ EntryAssert(Top.k)
  /\ solver.g.right[solver.g.root] = solver.g.root
  /\ solver' = [solver EXCEPT !.solution_count = @ + 1]
  /\ ret' = leaf_result(solver.mode, solver.solution_count + 1)
  /\ stack' = Pop
  /\ leaf_k' = Top.k
  /\ UNCHANGED <<cells, strict, phase, randVars, sudokuVars, auxVars>>

\* search chooses a column, covers it and lists (and shuffles) its rows
SearchColumn ==
  /\ phase = "running" /\ stack # << >> /\ Top.pc = "enter"
  /\ EntryAssert(Top.k)
  /\ solver.g.right[solver.g.root] # solver.g.root
  /\ LET column == choose_column(solver.g)
         g1     == cover(solver.g, column)
     IN  /\ solver' = [solver EXCEPT !.g = g1]
         /\ \E rows \in IF g1.count[column] > 0
                         THEN {search_rows(g1, column, solver.mode, t, 0) : t \in Tapes}
                         ELSE {<< >>} :
              stack' = SetTop([Top EXCEPT !.pc = "rows", !.column = column,
                                          !.i = 1, !.rows = rows])
  /\ ret' = "none"
  /\ UNCHANGED <<cells, strict, phase, leaf_k, randVars, sudokuVars, auxVars>>

\* the next row is recorded in the solution buffer
SelectRow ==
  /\ phase = "running" /\ stack # << >> /\ Top.pc = "rows"
  /\ Top.i <= Len(Top.rows)
  /\ LET row == Top.rows[Top.i]
     IN  /\ solver' = [solver EXCEPT !.solution[Top.k] = solver.g.rownum[row]]
         /\ stack' = SetTop([Top EXCEPT !.pc = "cover", !.row = row,
                                        !.c = solver.g.right[row],
                                        !.covered = << >>, !.undone = << >>])
  /\ UNCHANGED <<cells, strict, ret, phase, leaf_k, randVars, sudokuVars, auxVars>>

\* cover(c->column); c = c->right
CoverNext ==
  /\ phase = "running" /\ stack # << >> /\ Top.pc = "cover"
  /\ Top.c # Top.row
  /\ solver' = [solver EXCEPT !.g = cover(solver.g, solver.g.column[Top.c])]
  /\ stack' = SetTop([Top EXCEPT !.c = solver.g.right[Top.c],
                                 !.covered = Append(@, solver.g.column[Top.c])])
  /\ UNCHANGED <<cells, strict, ret, phase, leaf_k, randVars, sudokuVars, auxVars>>

\* search(s, k+1) is called
Recurse ==
  /\ phase = "running" /\ stack # << >> /\ Top.pc = "cover"
  /\ Top.c = Top.row
  /\ stack' = SetTop([Top EXCEPT !.pc = "called"]) \o <<Frame(Top.k + 1)>>
  /\ UNCHANGED <<cells, strict, solver, ret, phase, leaf_k, randVars, sudokuVars, auxVars>>

\* the call returned true: this frame returns true at once
ReturnTrue ==
  /\ phase = "running" /\ stack # << >> /\ Top.pc = "called"
  /\ ret = TRUE
  /\ stack' = Pop
  /\ UNCHANGED <<cells, strict, solver, ret, phase, leaf_k, randVars, sudokuVars, auxVars>>

\* the call returned false: the row is given up
Backtrack ==
  /\ phase = "running" /\ stack # << >> /\ Top.pc = "called"
  /\ ret = FALSE
  /\ stack' = SetTop([Top EXCEPT !.pc = "uncover",
                                 !.c = PrevInRow(solver.g, Top.row)])
  /\ ret' = "none"
  /\ UNCHANGED <<cells, strict, solver, phase, leaf_k, randVars, sudokuVars, auxVars>>

\* uncover(c->column); c = c->left
UncoverNext ==
  /\ phase = "running" /\ stack # << >> /\ Top.pc = "uncover"
  /\ Top.c # Top.row
  /\ solver' = [solver EXCEPT !.g = uncover(solver.g, solver.g.column[Top.c])]
  /\ stack' = SetTop([Top EXCEPT !.c = PrevInRow(solver.g, Top.c),
                                 !.undone = Append(@, solver.g.column[Top.c])])
  /\ UNCHANGED <<cells, strict, ret, phase, leaf_k, randVars, sudokuVars, auxVars>>

\* i++ of the row loop
NextRow ==
  /\ phase = "running" /\ stack # << >> /\ Top.pc = "uncover"
  /\ Top.c = Top.row
  /\ stack' = SetTop([Top EXCEPT !.pc = "rows", !.i = @ + 1,
                                 !.row = NULL, !.c = NULL])
  /\ UNCHANGED <<cells, strict, solver, ret, phase, leaf_k, randVars, sudokuVars, auxVars>>

\* no row is left: uncover(column); return false
SearchFail ==
  /\ phase = "running" /\ stack # << >> /\ Top.pc = "rows"
  /\ Top.i > Len(Top.rows)
  /\ solver' = [solver EXCEPT !.g = uncover(solver.g, Top.column)]
  /\ ret' = FALSE
  /\ stack' = Pop
  /\ UNCHANGED <<cells, strict, phase, leaf_k, randVars, sudokuVars, auxVars>>

\* solver_run returns: found in random mode, solution_count = 1 in unique mode
Finish ==
  /\ phase = "running" /\ stack = << >>
  /\ ret' = IF solver.mode = DLX_RANDOM THEN ret ELSE solver.solution_count = 1
  /\ phase' = "done"
  /\ UNCHANGED <<cells, strict, solver, stack, leaf_k, randVars, sudokuVars, auxVars>>

SolverNext ==
  \/ Run \/ SearchLeaf \/ SearchColumn \/ SelectRow \/ CoverNext \/ Recurse
  \/ ReturnTrue \/ Backtrack \/ UncoverNext \/ NextRow \/ SearchFail \/ Finish

SpecSolver == SolverInit /\ [][SolverNext]_vars

(***************************************************************************)
(* Claims about the solver (SpecSolver)                                    *)
(***************************************************************************)

RECURSIVE RingFrom(_, _)
\* the headers met walking the header ring rightwards from c to the root
RingFrom(g, c) == IF c = g.root THEN {} ELSE {c} \cup RingFrom(g, g.right[c])

\* the columns that are in the header ring of a graph
LiveColumns(g) == RingFrom(g, g.right[g.root])

\* the graph as solver_init_graph left it
BuiltGraph == solver_init_graph(cells, NCols, NRows, strict)

On(r, col) == cells[(r * NCols) + col]

\* The exact covers of the live columns, counted without the solver: the
\* sets of rows (each with some cell on) such that every live column has a
\* cell on in exactly one row of the set.
ExactCovers ==
  LET live == LiveColumns(BuiltGraph)
  IN  {S \in SUBSET (0..(NRows - 1)) :
         /\ \A r \in S : \E col \in 0..(NCols - 1) : On(r, col)
         /\ \A col \in live : Cardinality({r \in S : On(r, col)}) = 1}

Done == phase = "done"

\* C4: in count-unique mode solver_run returns true if and only if exactly
\* one exact cover of the live columns of the built graph exists.
C4_UniqueIffOneCover ==
  (Done /\ solver.mode = DLX_UNIQUE) =>
     (ret = TRUE <=> Cardinality(ExactCovers) = 1)

\* C4 witness: a count-unique run that returned true for a cover of two or
\* more rows.
C4_Witness ==
  /\ Done /\ solver.mode = DLX_UNIQUE /\ ret = TRUE
  /\ Cardinality(ExactCovers) = 1 /\ leaf_k >= 2

\* C5: in count-unique mode solution_count never exceeds 2, and once it is 2
\* every step is a frame returning (the stack loses its top frame, nothing
\* else of the solver changes) or solver_run returning.
C5_StopsAtSecond ==
  [][/\ (solver'.mode = DLX_UNIQUE /\ phase' # "built") => solver'.solution_count <= 2
     /\ (phase = "running" /\ solver.mode = DLX_UNIQUE /\ solver.solution_count = 2)
          => /\ solver' = solver
             /\ \/ (stack # << >> /\ stack' = Pop /\ ret' = TRUE)
                \/ (stack = << >> /\ phase' = "done" /\ ret' = FALSE)]_vars

\* C5 witness: the second assignment has been recorded with two or more
\* enclosing frames still active.
C5_Witness ==
  /\ phase = "running" /\ solver.mode = DLX_UNIQUE
  /\ solver.solution_count = 2 /\ Len(stack) >= 2

\* the rows recorded in solution[0..leaf_k-1]
Recorded == {solver.solution[j] : j \in 0..(leaf_k - 1)}

\* C6: in find-any mode solver_run returns true if and only if an exact cover
\* of the live columns exists, and then the recorded rows are such a cover.
C6_RandomFindsCover ==
  (Done /\ solver.mode = DLX_RANDOM) =>
     /\ ret = TRUE <=> ExactCovers # {}
     /\ ret = TRUE => /\ Recorded \in ExactCovers
                      /\ Cardinality(Recorded) = leaf_k

\* C6 witness: a find-any run that returned a cover of two or more rows
\* after giving up at least one row.
C6_Witness ==
  /\ Done /\ solver.mode = DLX_RANDOM /\ ret = TRUE /\ leaf_k >= 2
  /\ Cardinality(ExactCovers) >= 2

\* C7: after a successful find-any run whose solution has leaf_k rows, every
\* slot of the buffer from leaf_k on holds -1.
C7_SentinelBeyondSolution ==
  (Done /\ solver.mode = DLX_RANDOM /\ ret = TRUE) =>
     \A j \in leaf_k..(solver.solution_size - 1) : solver.solution[j] = -1

\* C8: in every state of a search and for every column c in the header ring,
\* cover(c) followed by uncover(c) gives back the same links and counts.
C8_CoverUncoverRoundTrip ==
  (phase \in {"built", "running"}) =>
     \A c \in LiveColumns(solver.g) : uncover(cover(solver.g, c), c) = solver.g

\* C8 witness: two frames deep in a search, a live column with two rows whose
\* cover changes the graph.
C8_Witness ==
  /\ phase = "running" /\ Len(stack) >= 2
  /\ \E c \in LiveColumns(solver.g) :
       /\ solver.g.count[c] >= 2
       /\ cover(solver.g, c).count # solver.g.count

(***************************************************************************)
(* Grids used as inputs, and what a caller's memory may hold               *)
(***************************************************************************)

\* a solved grid: row y is 1..SUDOKU_SIZE rotated by BOX*(y % BOX) + y \div BOX
BaseGrid ==
  Array([i \in 0..(GRID_SIZE - 1) |->
           (((BOX * (GRID_Y(i) % BOX)) + (GRID_Y(i) \div BOX) + GRID_X(i))
              % SUDOKU_SIZE) + 1])

ZeroGrid == Array([i \in 0..(GRID_SIZE - 1) |-> 0])

\* main declares `sudoku puzzle, solution` without initializing them: at the
\* call of sudoku_generate each holds whatever the stack held
Garbage == {ZeroGrid, BaseGrid}

(***************************************************************************)
(* main and sudoku_generate: one step for each stage, two for each hint    *)
(* the uniqueness stage examines                                           *)
(***************************************************************************)

\* largest extra_hints below the number of empty cells that is tried
MaxExtra == 1

\* the values of extra_hints: not positive, small, and more than any puzzle
\* has empty cells
ExtraHints == ((-1)..MaxExtra) \cup {GRID_SIZE}

GenerateInit ==
  /\ tape \in Tapes
  /\ pos = 0
  /\ extra_hints \in ExtraHints
  /\ puzzle \in Garbage
  /\ solution \in Garbage
  /\ hints = << >> /\ hint_i = 0 /\ hint_v = 0
  /\ input = NoGrid /\ solved = "none" /\ unique_grid = NoGrid
  /\ run = 1 /\ first = << >>
  /\ pc = "start"
  /\ SolverIdle
  /\ AuxIdle

\* seed(s)
Seed ==
  /\ pc = "start"
  /\ puzzle' = seed(puzzle, tape, pos)
  /\ pos' = pos + Draws(SUDOKU_SIZE)
  /\ pc' = "seeded"
  /\ UNCHANGED <<solution, hints, extra_hints, hint_i, hint_v, input, solved,
                 unique_grid, run, first, tape, solverVars, auxVars>>

\* if (!sudoku_solve(s)) { warn(...); return; }
Solve ==
  /\ pc = "seeded"
  /\ LET r == sudoku_solve(puzzle, tape, pos)
     IN  /\ input' = puzzle
         /\ puzzle' = r.grid
         /\ pos' = r.pos
         /\ solved' = IF r.aborted THEN "none" ELSE r.solved
         /\ pc' = IF r.aborted THEN "aborted"
                  ELSE IF r.solved THEN "solved" ELSE "failed"
  /\ UNCHANGED <<solution, hints, extra_hints, hint_i, hint_v, unique_grid,
                 run, first, tape, solverVars, auxVars>>

\* memcpy(solution, s, sizeof(sudoku))
Snapshot ==
  /\ pc = "solved"
  /\ solution' = puzzle
  /\ pc' = "copied"
  /\ UNCHANGED <<puzzle, hints, extra_hints, hint_i, hint_v, input, solved,
                 unique_grid, run, first, randVars, solverVars, auxVars>>

\* init_shuffled_array(hints, GRID_SIZE, 0)
ShuffleHints ==
  /\ pc = "copied"
  /\ hints' = init_shuffled_array(GRID_SIZE, 0, tape, pos)
  /\ pos' = pos + Draws(GRID_SIZE)
  /\ pc' = "shuffled"
  /\ UNCHANGED <<puzzle, solution, extra_hints, hint_i, hint_v, input, solved,
                 unique_grid, run, first, tape, solverVars, auxVars>>

\* remove_deduced_hints(s, hints, GRID_SIZE), then the entry of
\* remove_non_unique_hints
RemoveDeduced ==
  /\ pc = "shuffled"
  /\ puzzle' = remove_deduced_hints(puzzle, hints, GRID_SIZE)
  /\ hint_i' = 0
  /\ pc' = "unique"
  /\ UNCHANGED <<solution, hints, extra_hints, hint_v, input, solved,
                 unique_grid, run, first, randVars, solverVars, auxVars>>

\* GRID_IDX(x, y) of the hint the loop of remove_non_unique_hints is at
HintCell ==
  GRID_IDX(GRID_X(hints[hint_i + 1]), GRID_Y(hints[hint_i + 1]))

\* v == 0: the cell is empty already
SkipHint ==
  /\ pc = "unique" /\ hint_i < GRID_SIZE
  /\ puzzle[HintCell] = 0
  /\ hint_v' = 0
  /\ hint_i' = hint_i + 1
  /\ UNCHANGED <<puzzle, solution, hints, extra_hints, pc, input, solved,
                 unique_grid, run, first, randVars, solverVars, auxVars>>

\* v != 0: the hint is tentatively removed
TentativeClear ==
  /\ pc = "unique" /\ hint_i < GRID_SIZE
  /\ puzzle[HintCell] # 0
  /\ hint_v' = puzzle[HintCell]
  /\ puzzle' = [puzzle EXCEPT ![HintCell] = 0]
  /\ pc' = "check"
  /\ UNCHANGED <<solution, hints, extra_hints, hint_i, input, solved,
                 unique_grid, run, first, randVars, solverVars, auxVars>>

\* the count-unique run on the grid without the hint; the hint is put back
\* unless the solution is unique
CheckUnique ==
  /\ pc = "check"
  /\ LET r == unique_run(puzzle, tape, pos)
     IN  IF r.aborted
         THEN /\ pc' = "aborted"
              /\ UNCHANGED <<puzzle, hint_i, pos>>
         ELSE /\ puzzle' = [puzzle EXCEPT ![HintCell] = hint_after_check(r.ret, hint_v)]
              /\ hint_i' = hint_i + 1
              /\ pos' = r.pos
              /\ pc' = "unique"
  /\ UNCHANGED <<solution, hints, extra_hints, hint_v, input, solved,
                 unique_grid, run, first, tape, solverVars, auxVars>>

\* remove_non_unique_hints returns
EndUnique ==
  /\ pc = "unique" /\ hint_i >= GRID_SIZE
  /\ unique_grid' = puzzle
  /\ pc' = "extra"
  /\ UNCHANGED <<puzzle, solution, hints, extra_hints, hint_i, hint_v, input,
                 solved, run, first, randVars, solverVars, auxVars>>

\* add_extra_hints(s, solution, extra_hints); sudoku_generate returns
AddExtraHints ==
  /\ pc = "extra"
  /\ LET r == add_extra_hints(puzzle, solution, extra_hints, tape, pos)
     IN  /\ puzzle' = r.grid
         /\ pos' = r.pos
  /\ pc' = "done"
  /\ UNCHANGED <<solution, hints, extra_hints, hint_i, hint_v, input, solved,
                 unique_grid, run, first, tape, solverVars, auxVars>>

\* The program is run again with the same seed and the same extra_hints:
\* srand(seed) puts the generator back at the start of the same sequence,
\* and the locals of main are uninitialized again.
Rerun ==
  /\ pc = "done" /\ run = 1
  /\ first' = [puzzle |-> puzzle, solution |-> solution]
  /\ run' = 2
  /\ pos' = 0
  /\ puzzle' \in Garbage
  /\ solution' \in Garbage
  /\ hints' = << >> /\ hint_i' = 0 /\ hint_v' = 0
  /\ input' = NoGrid /\ solved' = "none" /\ unique_grid' = NoGrid
  /\ pc' = "start"
  /\ UNCHANGED <<extra_hints, tape, solverVars, auxVars>>

GenerateNext ==
  \/ Seed \/ Solve \/ Snapshot \/ ShuffleHints \/ RemoveDeduced
  \/ SkipHint \/ TentativeClear \/ CheckUnique \/ EndUnique
  \/ AddExtraHints \/ Rerun

SpecGenerate == GenerateInit /\ [][GenerateNext]_vars

(***************************************************************************)
(* sudoku_solve called on a given grid                                     *)
(***************************************************************************)

\* the cells in which the input grids differ from the solved grid
Window == {GRID_IDX(0, 0), GRID_IDX(1, 0), GRID_IDX(1, SUDOKU_SIZE - 1)}

\* The input grids: the solved grid with any values, or none, in the cells
\* of the window; and the grid with no hint at all.
SolveInputs ==
  {Array([i \in 0..(GRID_SIZE - 1) |-> IF i \in Window THEN w[i] ELSE BaseGrid[i]]) :
     w \in [Window -> 0..SUDOKU_SIZE]} \cup {ZeroGrid}

SolveInit ==
  /\ input \in SolveInputs
  /\ puzzle = input
  /\ tape \in Tapes
  /\ pos = 0
  /\ pc = "solve_call"
  /\ solved = "none"
  /\ solution = NoGrid /\ hints = << >> /\ extra_hints = 0
  /\ hint_i = 0 /\ hint_v = 0 /\ unique_grid = NoGrid
  /\ run = 0 /\ first = << >>
  /\ SolverIdle
  /\ AuxIdle

\* sudoku_solve(s), from the call to the return (or to the failed assertion)
SolveCall ==
  /\ pc = "solve_call"
  /\ LET r == sudoku_solve(puzzle, tape, pos)
     IN  /\ puzzle' = r.grid
         /\ pos' = r.pos
         /\ solved' = IF r.aborted THEN "none" ELSE r.solved
         /\ pc' = IF r.aborted THEN "aborted" ELSE "returned"
  /\ UNCHANGED <<solution, hints, extra_hints, hint_i, hint_v, input,
                 unique_grid, run, first, tape, solverVars, auxVars>>

SpecSolve == SolveInit /\ [][SolveCall]_vars

(***************************************************************************)
(* Claims about sudoku_solve and sudoku_generate (SpecSolve, SpecGenerate)  *)
(***************************************************************************)

Cells == 0..(GRID_SIZE - 1)

\* The rows, columns and boxes of the grid, as sets of cells, written from
\* the rules of the game.
Units ==
  {{c \in Cells : c \div SUDOKU_SIZE = k} : k \in 0..(SUDOKU_SIZE - 1)}
  \cup {{c \in Cells : c % SUDOKU_SIZE = k} : k \in 0..(SUDOKU_SIZE - 1)}
  \cup {{c \in Cells : /\ (c \div SUDOKU_SIZE) \div BOX = k \div BOX
                       /\ (c % SUDOKU_SIZE) \div BOX = k % BOX} :
          k \in 0..(SUDOKU_SIZE - 1)}

\* the other cells of the units of c
Peers == Array([c \in Cells |-> (UNION {u \in Units : c \in u}) \ {c}])

\* a completed valid grid: every unit holds each value exactly once
IsSolved(grid) == \A u \in Units : {grid[c] : c \in u} = 1..SUDOKU_SIZE

RECURSIVE CompletionsFrom(_, _)
\* The exhaustive enumeration: the solved grids that agree with grid on its
\* filled cells, trying every value in every empty cell from cell c on.
CompletionsFrom(grid, c) ==
  IF c = GRID_SIZE THEN {grid}
  ELSE IF grid[c] # 0
       THEN IF \A q \in Peers[c] : grid[q] # grid[c]
            THEN CompletionsFrom(grid, c + 1) ELSE {}
       ELSE UNION {CompletionsFrom([grid EXCEPT ![c] = v], c + 1) :
                     v \in {w \in 1..SUDOKU_SIZE : \A q \in Peers[c] : grid[q] # w}}

Completions(grid) == CompletionsFrom(grid, 0)

Filled(grid) == {c \in Cells : grid[c] # 0}

Generated == pc = "done"

C2_SolutionIsSolved ==
  Generated => IsSolved(solution)

\* C2 witness: a completed generation whose solution extends the seeded first
\* row with cells that the solver filled in.
C2_Witness ==
  /\ Generated /\ solved = TRUE
  /\ Cardinality(Filled(input)) = SUDOKU_SIZE
  /\ Filled(solution) = Cells
  /\ \A c \in Filled(input) : solution[c] = input[c]

\* C3: sudoku_solve returns true only if the grid afterwards is a completed
\* valid solution, and returns false whenever the input grid has no valid
\* completion.
C3_SolveTrueOnlyIfSolved ==
  (pc = "returned") =>
     /\ solved = TRUE => IsSolved(puzzle)
     /\ Completions(input) = {} => solved = FALSE

C10_ExtraHintsKeepUnique ==
  Generated =>
     /\ \A c \in Filled(unique_grid) : puzzle[c] = unique_grid[c]
     /\ \A c \in Filled(puzzle) \ Filled(unique_grid) : puzzle[c] = solution[c]
     /\ Completions(puzzle) = {solution}

\* C10 witness: the stage has filled some but not all of the empty cells.
C10_Witness ==
  /\ Generated /\ extra_hints > 0
  /\ Filled(puzzle) # Filled(unique_grid)
  /\ Filled(puzzle) # Cells

(***************************************************************************)
(* The row index of a placement: DLX_ROW as get_dlx_cells computes it and  *)
(* DLX_X, DLX_Y, DLX_V as fill_solution reads it back                      *)
(***************************************************************************)

\* the placements: a cell (x, y) and a value v
Placements ==
  [x : 0..(SUDOKU_SIZE - 1), y : 0..(SUDOKU_SIZE - 1), v : 1..SUDOKU_SIZE]

\* int row = DLX_ROW(v, x, y), with the loop's v one less than the value
RowOf(p) == DLX_ROW(p.v - 1, p.x, p.y)

RowIndexInit ==
  /\ placement \in Placements
  /\ dlx_r = NULL
  /\ decoded = << >>
  /\ SolverIdle /\ RandIdle /\ SudokuIdle /\ BuildIdle /\ CallIdle
  /\ EncodeIdle

\* get_dlx_cells: the row index of the placement
Encode ==
  /\ dlx_r = NULL
  /\ dlx_r' = RowOf(placement)
  /\ UNCHANGED <<placement, decoded, solverVars, randVars, sudokuVars, buildVars, callVars,
                 encodeVars>>

\* fill_solution: the cell and the value read back from the row index
Decode ==
  /\ dlx_r # NULL /\ decoded = << >>
  /\ decoded' = [x |-> DLX_X(dlx_r), y |-> DLX_Y(dlx_r), v |-> DLX_V(dlx_r)]
  /\ UNCHANGED <<placement, dlx_r, solverVars, randVars, sudokuVars, buildVars, callVars,
                 encodeVars>>

RowIndexNext == Encode \/ Decode

SpecRowIndex == RowIndexInit /\ [][RowIndexNext]_vars

\* C11: the row index of a placement lies in 0..DLX_MAX_ROWS-1, no other
\* placement has the same row index, and decoding it with DLX_X, DLX_Y and
\* DLX_V gives back exactly the placement.
C11_RowIndexRoundTrip ==
  /\ dlx_r # NULL =>
       /\ dlx_r \in 0..(DLX_MAX_ROWS - 1)
       /\ \A q \in Placements : RowOf(q) = dlx_r => q = placement
  /\ decoded # << >> => decoded = placement

\* C11 witness: a placement with x, y and v - 1 all different and not zero
\* has been encoded and decoded.
C11_Witness ==
  /\ decoded # << >>
  /\ Cardinality({0, placement.x, placement.y, placement.v - 1}) = 4

(***************************************************************************)
(* solver_create and solver_init_graph on a matrix with no column: the     *)
(* header loop, one step for each iteration, with every node it writes     *)
(* checked against the arena solver_create allocated                       *)
(***************************************************************************)

\* largest number of rows of the matrix, largest inuse given to solver_create
\* and the number of writes outside the arena the run is followed for
MaxEmptyRows == 3
MaxInuse == 2
MaxOutside == 2

\* s->nodes = calloc(needed, sizeof(node)) with needed = inuse + ncols + 1:
\* every link of every node is null
NewArena(inuse, ncols) ==
  [n \in 0..(inuse + ncols) |-> [left |-> NULL, right |-> NULL]]

\* col < s->ncols-1.  s->ncols is a size_t, so the comparison is unsigned:
\* with ncols = 0 the bound is SIZE_MAX, which every col the int reaches
\* counting up from 1 is below.
HeaderLoopCond(col, ncols) == IF ncols = 0 THEN TRUE ELSE col < ncols - 1

\* the state after solver_create(inuse, 0, nrows) and the entry of
\* solver_init_graph: int col = 1
EmptyInit ==
  /\ s_ncols = 0
  /\ s_nrows \in 0..MaxEmptyRows
  /\ cells = << >>
  /\ strict \in BOOLEAN
  /\ \E inuse \in 0..MaxInuse : arena = NewArena(inuse, s_ncols)
  /\ build_col = 1
  /\ touched = {}
  /\ build_pc = "headers"
  /\ solver = << >> /\ stack = << >> /\ ret = "none" /\ phase = "idle"
  /\ leaf_k = -1
  /\ RandIdle /\ SudokuIdle /\ CodecIdle /\ CallIdle /\ EncodeIdle

\* nodes[col].left = &nodes[col-1]; nodes[col].right = &nodes[col+1]; col++
\* for a node of the arena
LinkHeader ==
  /\ build_pc = "headers"
  /\ HeaderLoopCond(build_col, s_ncols)
  /\ build_col \in DOMAIN arena
  /\ arena' = [arena EXCEPT ![build_col] =
                 [left |-> build_col - 1, right |-> build_col + 1]]
  /\ build_col' = build_col + 1
  /\ UNCHANGED <<s_ncols, s_nrows, touched, build_pc, solverVars, randVars,
                 sudokuVars, codecVars, callVars, encodeVars>>

\* the same statements for a node beyond the arena: the write is undefined
\* behaviour, after which the process is killed (the address is not mapped)
\* or goes on with the memory behind the arena overwritten
LinkHeaderOutside ==
  /\ build_pc = "headers"
  /\ HeaderLoopCond(build_col, s_ncols)
  /\ build_col \notin DOMAIN arena
  /\ Cardinality(touched) < MaxOutside
  /\ touched' = touched \cup {build_col}
  /\ build_pc' \in {"headers", "fault"}
  /\ build_col' = build_col + 1
  /\ UNCHANGED <<s_ncols, s_nrows, arena, solverVars, randVars, sudokuVars,
                 codecVars, callVars, encodeVars>>

EmptyNext == LinkHeader \/ LinkHeaderOutside

SpecEmptyMatrix == EmptyInit /\ [][EmptyNext]_vars

\* C12: for a matrix with zero columns the build and the run touch no node
\* outside the allocated arena and the process is not stopped by a fault
\* (and solver_run then returns true with every slot of the buffer -1).
C12_EmptyMatrixSucceeds ==
  (s_ncols = 0) => (touched = {} /\ build_pc # "fault")

(***************************************************************************)
(* sudoku_generate and its caller: what main receives from the call, on    *)
(* the return of line 102 and on the early return of line 85               *)
(***************************************************************************)

\* sudoku_generate is declared void: both of its returns hand main nothing
ResultOnSuccess == "void"
ResultOnFailure == "void"

\* The seeded solve returns false.  With the solver of this repository no
\* seeded grid makes it do so (Solve never gives pc = "failed"); the branch
\* of line 83 is entered here by leaving the result of the call open.  A
\* call that returns false has not run fill_solution: the grid is the seeded
\* one.
SolveFails ==
  /\ pc = "seeded"
  /\ input' = puzzle
  /\ solved' = FALSE
  /\ pc' = "failed"
  /\ UNCHANGED <<puzzle, solution, hints, extra_hints, hint_i, hint_v,
                 unique_grid, run, first, randVars, solverVars, auxVars>>

\* warn("could not generate sudoku puzzle"); return;
ReturnFailed ==
  /\ pc = "failed" /\ gen_result = "none"
  /\ warned' = TRUE
  /\ gen_result' = ResultOnFailure
  /\ UNCHANGED <<sudokuVars, randVars, solverVars, codecVars, buildVars,
                 encodeVars>>

\* the return at the end of sudoku_generate
ReturnDone ==
  /\ pc = "done" /\ gen_result = "none"
  /\ gen_result' = ResultOnSuccess
  /\ UNCHANGED <<warned, sudokuVars, randVars, solverVars, codecVars,
                 buildVars, encodeVars>>

OutcomeNext ==
  \/ Seed \/ Solve \/ SolveFails \/ ReturnFailed \/ Snapshot \/ ShuffleHints
  \/ RemoveDeduced \/ SkipHint \/ TentativeClear \/ CheckUnique \/ EndUnique
  \/ AddExtraHints \/ ReturnDone

SpecGenerateOutcome == GenerateInit /\ [][OutcomeNext]_vars

\* the first row filled with 1..SUDOKU_SIZE, all other cells empty
PartiallySeeded(grid) ==
  /\ {grid[GRID_IDX(x, 0)] : x \in 0..(SUDOKU_SIZE - 1)} = 1..SUDOKU_SIZE
  /\ \A c \in Cells : GRID_Y(c) > 0 => grid[c] = 0

C14_FalseLeavesGrid ==
  (pc = "returned" /\ solved = FALSE) => puzzle = input

\* C14 witness: sudoku_solve has returned false on a grid with two empty
\* cells, each of which had a candidate (so the search recorded rows before
\* it failed).
C14_Witness ==
  /\ pc = "returned" /\ solved = FALSE
  /\ Cardinality(Cells \ Filled(input)) = 2
  /\ \A c \in Cells \ Filled(input) :
       \E v \in 1..SUDOKU_SIZE : \A q \in Peers[c] : input[q] # v

(***************************************************************************)
(* More claims about the solver (SpecSolver)                               *)
(***************************************************************************)

\* the root and the headers in the header ring
RingNodes(g) == {g.root} \cup LiveColumns(g)

\* the header of column c and the nodes in its vertical ring
VerticalNodes(g, c) ==
  LET ns == ColumnNodes(g, c, g.down[c])
  IN  {c} \cup {ns[j] : j \in 1..Len(ns)}

\* C15: in every state of a search (after the build and between any two
\* calls of cover or uncover) the header ring through the root is a circular
\* doubly-linked list, the vertical ring of every live column is a circular
\* doubly-linked list of nodes of that column, and the count of every live
\* header is the number of nodes in its vertical ring.
C15_GraphWellFormed ==
  (phase \in {"built", "running", "done"}) =>
     LET g == solver.g
     IN  /\ \A h \in RingNodes(g) :
              g.right[g.left[h]] = h /\ g.left[g.right[h]] = h
         /\ \A c \in LiveColumns(g) :
              /\ \A n \in VerticalNodes(g, c) :
                   g.down[g.up[n]] = n /\ g.up[g.down[n]] = n
              /\ \A n \in VerticalNodes(g, c) \ {c} : g.column[n] = c
              /\ g.count[c] = Cardinality(VerticalNodes(g, c) \ {c})

\* C15 witness: two frames deep in a search, a live column that has lost
\* some but not all of its rows to the covers made so far.
C15_Witness ==
  /\ phase = "running" /\ Len(stack) >= 2
  /\ \E c \in LiveColumns(solver.g) :
       /\ solver.g.count[c] >= 1
       /\ solver.g.count[c] < BuiltGraph.count[c]

\* C17: in no call of solver_run made by sudoku_solve does a frame of search
\* fail the entry assertion 0 <= k < capacity (capacity GRID_SIZE), whatever
\* the input grid, the grid with no hint included.  (pc = "aborted" records a
\* frame whose assertion failed.)
C17_EntryAssertionHolds == pc # "aborted"

\* the columns of the matrix with no cell on
ZeroColumns == {c \in 0..(NCols - 1) : \A r \in 0..(NRows - 1) : ~On(r, c)}

\* C18: after a relaxed build the header ring holds exactly the columns that
\* have a row, and no frame of the search ever chooses a column without
\* rows; after a strict build the ring holds every column, and solver_run
\* returns false in both modes whenever some column has no row.
C18_RelaxedDropsEmptyColumns ==
  /\ (phase = "built" /\ ~strict) =>
       LiveColumns(solver.g) = (0..(NCols - 1)) \ ZeroColumns
  /\ (phase = "running" /\ ~strict) =>
       \A j \in 1..Len(stack) :
          stack[j].column # NULL => stack[j].column \notin ZeroColumns
  /\ (phase = "built" /\ strict) =>
       LiveColumns(solver.g) = 0..(NCols - 1)
  /\ (Done /\ strict /\ ZeroColumns # {}) => ret = FALSE

\* C18 witness: a relaxed build of a matrix whose column 0 and one more
\* column have no row, on which a run has found a cover of the other columns
\* with two rows.
C18_Witness ==
  /\ Done /\ ~strict /\ ret = TRUE /\ leaf_k = 2
  /\ 0 \in ZeroColumns /\ Cardinality(ZeroColumns) = 2

RECURSIVE RingSeqFrom(_, _)
\* the headers of the ring in the order a walk rightwards from c meets them
RingSeqFrom(g, c) ==
  IF c = g.root THEN << >> ELSE <<c>> \o RingSeqFrom(g, g.right[c])

RingSeq(g) == RingSeqFrom(g, g.right[g.root])

\* C20: the column a frame of search chose is, in the graph the frame was
\* entered with, a column of the header ring whose count no column of the
\* ring is below, and every column of the ring met before it on the walk
\* rightwards from the root has a greater count.
C20_ChoosesFirstMinimum ==
  (phase = "running" /\ stack # << >> /\ Top.column # NULL) =>
     LET g    == Top.entry
         ring == RingSeq(g)
     IN  \E j \in 1..Len(ring) :
           /\ ring[j] = Top.column
           /\ \A m \in 1..Len(ring) : g.count[ring[j]] <= g.count[ring[m]]
           /\ \A m \in 1..(j - 1) : g.count[ring[m]] > g.count[ring[j]]

\* C20 witness: a frame one level deep or deeper chose a column that is not
\* the first of the ring while a later column of the ring has the same
\* count.
C20_Witness ==
  /\ phase = "running" /\ Len(stack) >= 2 /\ Top.column # NULL
  /\ LET g    == Top.entry
         ring == RingSeq(g)
     IN  /\ ring[1] # Top.column
         /\ \E m \in 1..Len(ring) :
              /\ ring[m] # Top.column
              /\ g.count[ring[m]] = g.count[Top.column]
              /\ \E j \in 1..(m - 1) : ring[j] = Top.column

Reverse(q) == [j \in 1..Len(q) |-> q[Len(q) + 1 - j]]

\* C16: a frame of search that returns false leaves the graph as it was when
\* the frame was entered; when it gives up a row it has uncovered the row's
\* columns in the reverse of the order it covered them; and the column it
\* chose is the last it uncovers (before that call the graph is the entry
\* graph with only that column covered).
C16_FailureRestoresGraph ==
  [][(phase = "running" /\ stack # << >>) =>
       /\ (stack' = Pop /\ ret' = FALSE) => solver'.g = Top.entry
       /\ (Top.pc = "uncover" /\ Top.c = Top.row) =>
            Top.undone = Reverse(Top.covered)
       /\ (Top.pc = "rows" /\ stack' = Pop) =>
            /\ solver.g = cover(Top.entry, Top.column)
            /\ solver'.g = uncover(solver.g, Top.column)]_vars

\* C16 witness: in find-any mode, a frame covered two or more columns for a
\* row, and the frame it called for that row, one level deeper, has chosen a
\* column and returned false.
C16_Witness ==
  /\ phase = "running" /\ solver.mode = DLX_RANDOM /\ stack # << >>
  /\ Top.pc = "called" /\ ret = FALSE
  /\ Len(Top.covered) >= 2

(***************************************************************************)
(* get_dlx_cells called on a given grid                                    *)
(***************************************************************************)

\* The grids given to get_dlx_cells: any values, or none, in the cells of
\* the window, the other cells those of the solved grid or all empty.
EncodeInputs ==
  {Array([i \in 0..(GRID_SIZE - 1) |-> IF i \in Window THEN w[i] ELSE rest[i]]) :
     w \in [Window -> 0..SUDOKU_SIZE], rest \in {BaseGrid, ZeroGrid}}

EncodeInit ==
  /\ enc_grid \in EncodeInputs
  /\ dlx = << >>
  /\ SolverIdle /\ RandIdle /\ SudokuIdle /\ CodecIdle /\ BuildIdle /\ CallIdle

\* bool *cells = get_dlx_cells(s, &count, &ncols, &nrows)
EncodeGrid ==
  /\ dlx = << >>
  /\ dlx' = get_dlx_cells(enc_grid)
  /\ UNCHANGED <<enc_grid, solverVars, randVars, sudokuVars, codecVars,
                 buildVars, callVars>>

SpecEncode == EncodeInit /\ [][EncodeGrid]_vars

\* the columns that are on in row r of the matrix returned
RowCells(r) ==
  {c \in 0..(DLX_MAX_COLS - 1) : dlx.cells[DLX_CELL_IDX(r, c)]}

\* by the rules of the game: the cell of p is empty and no cell of its row,
\* column or box holds the value of p
IsCandidate(grid, p) ==
  /\ grid[(p.y * SUDOKU_SIZE) + p.x] = 0
  /\ \A q \in Peers[(p.y * SUDOKU_SIZE) + p.x] : grid[q] # p.v

\* the columns of constraint family f (0: cell filled, 1: row has value,
\* 2: column has value, 3: box has value)
Family(f) == (f * GRID_SIZE)..(((f + 1) * GRID_SIZE) - 1)

\* C19: the matrix get_dlx_cells returns has a row for (x, y, v) if and only
\* if cell (x, y) is empty and v occurs nowhere in its row, column or box;
\* every row it has sets exactly four columns, one in each constraint
\* family; and the returned count is four times the number of rows it has.
C19_RowsAreCandidates ==
  (dlx # << >>) =>
     /\ \A p \in Placements :
          /\ RowCells(RowOf(p)) # {} <=> IsCandidate(enc_grid, p)
          /\ RowCells(RowOf(p)) # {} =>
               /\ Cardinality(RowCells(RowOf(p))) = 4
               /\ \A f \in 0..3 :
                    Cardinality(RowCells(RowOf(p)) \cap Family(f)) = 1
     /\ dlx.count =
          4 * Cardinality({r \in 0..(DLX_MAX_ROWS - 1) : RowCells(r) # {}})

\* C19 witness: the matrix of a grid with hints and empty cells, in which
\* some empty cell has a value with a row and a value without one.
C19_Witness ==
  /\ dlx # << >>
  /\ Cardinality(Filled(enc_grid)) >= SUDOKU_SIZE
  /\ \E p, q \in Placements :
       /\ p.x = q.x /\ p.y = q.y /\ enc_grid[GRID_IDX(p.x, p.y)] = 0
       /\ RowCells(RowOf(p)) # {} /\ RowCells(RowOf(q)) = {}

(***************************************************************************)
(* remove_deduced_hints called on a given solved grid and visiting order   *)
(***************************************************************************)

\* a and GRID_SIZE have no common divisor
Coprime(a) == \A d \in 2..a : ~(a % d = 0 /\ GRID_SIZE % d = 0)

\* the arrays init_shuffled_array(hints, GRID_SIZE, 0) gives for every tape
\* at every position of the generator
ShuffledOrders ==
  {init_shuffled_array(GRID_SIZE, 0, t, p) : t \in Tapes, p \in 0..(TapeLen - 1)}

\* the permutations that visit the cells in steps of a, starting at a cell
\* of starts
StrideOrders(starts) ==
  {[i \in 1..GRID_SIZE |-> ((a * (i - 1)) + b) % GRID_SIZE] :
     a \in {d \in 1..(GRID_SIZE - 1) : Coprime(d)}, b \in starts}

\* the visiting orders given to the stage
VisitOrders == ShuffledOrders \cup StrideOrders(0..(GRID_SIZE - 1))

\* sudoku_generate after init_shuffled_array: the snapshot is any solved
\* grid of the scale, the order any of VisitOrders
DeduceInit ==
  /\ solution \in Completions(ZeroGrid)
  /\ puzzle = solution
  /\ hints \in VisitOrders
  /\ pc = "shuffled"
  /\ extra_hints = 0 /\ hint_i = 0 /\ hint_v = 0
  /\ input = NoGrid /\ solved = TRUE /\ unique_grid = NoGrid
  /\ run = 0 /\ first = << >>
  /\ RandIdle
  /\ SolverIdle
  /\ AuxIdle

SpecDeduce == DeduceInit /\ [][RemoveDeduced]_vars

\* the stage has returned and the uniqueness stage has not begun its loop
Deduced == pc = "unique" /\ hint_i = 0

\* the values the hints among the peers of cell c show
Seen(grid, c) == {grid[q] : q \in Peers[c]} \ {0}

\* C21: at the end of remove_deduced_hints, for every solved grid and every
\* visiting order, the reduced grid has exactly one completion, which is the
\* snapshot solution; the stage only clears cells.
C21_DeducedKeepsUnique ==
  Deduced =>
     /\ Completions(puzzle) = {solution}
     /\ \A c \in Filled(puzzle) : puzzle[c] = solution[c]

\* C21 witness: the stage cleared some hints and kept others, and one of the
\* cleared cells no longer sees every other value among the hints that are
\* left (a peer it was deduced from was cleared after it).
C21_Witness ==
  /\ Deduced
  /\ Filled(puzzle) # {} /\ Filled(puzzle) # Cells
  /\ \E c \in Cells \ Filled(puzzle) :
       Seen(puzzle, c) \cup {solution[c]} # 1..SUDOKU_SIZE

(***************************************************************************)
(* sudoku_generate from the call of remove_deduced_hints to its return,    *)
(* on given solved grids and visiting orders                               *)
(***************************************************************************)

\* the cells the solved grids of these runs share: the first row is
\* 1, 2, ..., SUDOKU_SIZE and the second row begins with BOX + 1
ReduceGiven ==
  Array([i \in 0..(GRID_SIZE - 1) |->
           IF GRID_Y(i) = 0 THEN GRID_X(i) + 1
           ELSE IF i = GRID_IDX(0, 1) THEN BOX + 1 ELSE 0])

\* the orders of VisitOrders that the shuffle gives or that start at cell 0
ReduceOrders == ShuffledOrders \cup StrideOrders({0})

\* the generator's sequence in these runs: 0, 1, ..., MaxRand, 0, ...
ReduceTape == [i \in 0..(TapeLen - 1) |-> i % (MaxRand + 1)]

ReduceInit ==
  /\ solution \in Completions(ReduceGiven)
  /\ puzzle = solution
  /\ hints \in ReduceOrders
  /\ pc = "shuffled"
  /\ extra_hints \in ExtraHints
  /\ hint_i = 0 /\ hint_v = 0
  /\ input = NoGrid /\ solved = TRUE /\ unique_grid = NoGrid
  /\ run = 0 /\ first = << >>
  /\ tape = ReduceTape /\ pos = 0
  /\ SolverIdle
  /\ AuxIdle

ReduceNext ==
  \/ RemoveDeduced \/ SkipHint \/ TentativeClear \/ CheckUnique \/ EndUnique
  \/ AddExtraHints

SpecReduce == ReduceInit /\ [][ReduceNext]_vars

\* the grid with the single cell c cleared
Cleared(grid, c) == [grid EXCEPT ![c] = 0]

AfterSnapshot == pc \in {"copied", "shuffled", "unique", "check", "extra", "done"}

\* C23: in every state from the snapshot to the end of sudoku_generate, the
\* states with a hint tentatively cleared included, every non-empty cell of
\* the puzzle holds the snapshot solution's value at that cell, and no step
\* between two such states changes the snapshot solution.
C23_PuzzleWithinSolution ==
  /\ [](AfterSnapshot => \A c \in Filled(puzzle) : puzzle[c] = solution[c])
  /\ [][(AfterSnapshot /\ AfterSnapshot') => solution' = solution]_vars

\* C23 witness: a hint is tentatively cleared (the count-unique run has not
\* returned yet) after an earlier hint of the order was kept, and the value
\* saved for it is the solved snapshot's.
C23_Witness ==
  /\ pc = "check" /\ hint_i > 0 /\ run = 1
  /\ puzzle[HintCell] = 0 /\ hint_v = solution[HintCell]
  /\ \E j \in 1..hint_i : puzzle[hints[j]] # 0
  /\ IsSolved(solution)

====
